---- MODULE Spec2Model ----
(***************************************************************************)
(* Tres en raya (Tic-Tac-Toe): the board/outcome model, the minimax move   *)
(* selector and the session loops of src/main.py.                          *)
(***************************************************************************)
EXTENDS Integers, Sequences, FiniteSets, TLC

(***************************************************************************)
(* Constants of the program.                                               *)
(***************************************************************************)
BOARD_SIZE == 9

EMPTY == " "

\* Python's None, as returned by check_winner.
None == "None"

\* Python's None in the move slot of minimax's result.
NoMove == -1

\* math.inf and -math.inf, compared only with the scores -1, 0, 1.
PosInf == 2

\* The score of a lost board, -1, as the initial best score of the maximizer.
NegInf_as_loss == -1

NegInf == -2

Cells == 0 .. (BOARD_SIZE - 1)

Marks == {"X", "O"}

WIN_LINES ==
  << <<0, 1, 2>>, <<3, 4, 5>>, <<6, 7, 8>>,
     <<0, 3, 6>>, <<1, 4, 7>>, <<2, 5, 8>>,
     <<0, 4, 8>>, <<2, 4, 6>> >>

(***************************************************************************)
(* Board/outcome model.                                                    *)
(***************************************************************************)
new_board == [i \in Cells |-> EMPTY]

\* The test of one win line in check_winner: three equal non-empty marks.
Complete(board, line) ==
  /\ board[line[1]] # EMPTY
  /\ board[line[1]] = board[line[2]]
  /\ board[line[2]] = board[line[3]]

\* The for loop of check_winner over `lines`: the first complete line, in the
\* order of the table, decides; None when no line is complete.
ScanLines(board, lines) ==
  LET hit == {k \in DOMAIN lines : Complete(board, lines[k])}
  IN  IF hit = {}
        THEN None
        ELSE board[lines[CHOOSE k \in hit : \A j \in hit : k <= j][1]]

\* check_winner with the test for a full board made first.
check_winner_full_first(board) ==
  IF \A i \in Cells : board[i] # EMPTY
    THEN "D"
    ELSE ScanLines(board, WIN_LINES)

check_winner(board) ==
  LET w == ScanLines(board, WIN_LINES)
  IN  IF w # None
        THEN w
        ELSE IF \A i \in Cells : board[i] # EMPTY THEN "D" ELSE None

\* enumerate(board): the indices in ascending order.
Indices == [k \in 1 .. BOARD_SIZE |-> k - 1]

\* The list comprehension with the filter inverted: the occupied cells.
available_moves_occupied(board) ==
  SelectSeq(Indices, LAMBDA i : board[i] # EMPTY)

\* The list comprehension: the empty cells, in ascending index order.
available_moves(board) == SelectSeq(Indices, LAMBDA i : board[i] = EMPTY)

\* make_move as it would be with a guard: an occupied cell is left alone.
make_move_guarded(board, idx, player) ==
  IF board[idx] = EMPTY THEN [board EXCEPT ![idx] = player] ELSE board

\* board[idx] = player, with no check of the cell.
make_move(board, idx, player) == [board EXCEPT ![idx] = player]

Other(player) == IF player = "X" THEN "O" ELSE "X"

(***************************************************************************)
(* Move selector.  minimax works on the caller's list in place, so its     *)
(* result carries the list as the call leaves it next to (score, move).    *)
(***************************************************************************)
\* The trial move left on the board.
UndoTrial_skipped(board, move) == board

\* The assignment that takes the trial move back.
UndoTrial(board, move) == [board EXCEPT ![move] = EMPTY]

\* The update with non-strict comparisons: a tie replaces the best move.
Better_ties(maximizing, score, best_score) ==
  IF maximizing THEN score >= best_score ELSE score <= best_score

\* The update of (best_score, best_move) with the score of one trial.
Better(maximizing, score, best_score) ==
  IF maximizing THEN score > best_score ELSE score < best_score

\* The breaks taken as soon as the side does not lose.
EarlyExit_at_draw(maximizing, best_score) ==
  \/ maximizing /\ best_score >= 0
  \/ ~maximizing /\ best_score <= 0

\* The two breaks at the end of the loop body.
EarlyExit(maximizing, best_score) ==
  \/ maximizing /\ best_score = 1
  \/ ~maximizing /\ best_score = -1

\* The utility with the win of O scored as a draw.
Utility_o_draw(winner) == IF winner = "X" THEN 1 ELSE 0

\* The score of a finished board: +1 when X won, -1 when O won, 0 for "D".
Utility(winner) ==
  IF winner = "X" THEN 1 ELSE IF winner = "O" THEN -1 ELSE 0

RECURSIVE minimax(_, _, _), MinimaxLoop(_, _, _, _, _, _, _)
minimax(board, player, maximizing) ==
  LET winner == check_winner(board)
  IN  IF winner # None
        THEN [score |-> Utility(winner),
              move  |-> NoMove,
              board |-> board]
        ELSE MinimaxLoop(board, player, maximizing, available_moves(board), 1,
                         IF maximizing THEN NegInf ELSE PosInf, NoMove)

\* The for loop of minimax from the k-th available move on.
MinimaxLoop(board, player, maximizing, moves, k, best_score, best_move) ==
  IF k > Len(moves)
    THEN [score |-> best_score, move |-> best_move, board |-> board]
    ELSE LET move  == moves[k]
             sub   == minimax([board EXCEPT ![move] = player], Other(player),
                              ~maximizing)
             back  == UndoTrial(sub.board, move)
             upd   == Better(maximizing, sub.score, best_score)
             score == IF upd THEN sub.score ELSE best_score
             best  == IF upd THEN move ELSE best_move
         IN  IF EarlyExit(maximizing, score)
               THEN [score |-> score, move |-> best, board |-> back]
               ELSE MinimaxLoop(back, player, maximizing, moves, k + 1, score, best)

\* best_move_for_cpu with the roles exchanged: O maximizes, X minimizes.
best_move_for_cpu_roles(board, cpu_piece) ==
  LET r     == minimax(board, cpu_piece, cpu_piece = "O")
      moves == available_moves(r.board)
  IN  IF r.move = NoMove
        THEN IF Len(moves) = 0
               THEN [raised |-> TRUE, move |-> NoMove, board |-> r.board]
               ELSE [raised |-> FALSE, move |-> moves[1], board |-> r.board]
        ELSE [raised |-> FALSE, move |-> r.move, board |-> r.board]

\* best_move_for_cpu without the fallback: no move from minimax is an error.
best_move_for_cpu_strict(board, cpu_piece) ==
  LET r == minimax(board, cpu_piece, cpu_piece = "X")
  IN  IF r.move = NoMove
        THEN [raised |-> TRUE, move |-> NoMove, board |-> r.board]
        ELSE [raised |-> FALSE, move |-> r.move, board |-> r.board]

\* best_move_for_cpu: the move, or the RuntimeError, and the caller's list as
\* the call leaves it.
best_move_for_cpu(board, cpu_piece) ==
  LET maximizing == (cpu_piece = "X")
      r          == minimax(board, cpu_piece, maximizing)
      moves      == available_moves(r.board)
  IN  IF r.move = NoMove
        THEN IF Len(moves) = 0
               THEN [raised |-> TRUE, move |-> NoMove, board |-> r.board]
               ELSE [raised |-> FALSE, move |-> moves[1], board |-> r.board]
        ELSE [raised |-> FALSE, move |-> r.move, board |-> r.board]

(***************************************************************************)
(* State.                                                                  *)
(*   pc           where the process is: "menu" (main's option prompt),     *)
(*                "piece" (run_vs_cpu's piece prompt), "turn" (top of a    *)
(*                session loop), "again" (main's play-again prompt),       *)
(*                "exit" (the process has ended); "call", "self" and       *)
(*                "legal" are the harnesses of SpecFn, SpecSelf, SpecLegal *)
(*   mode         "two" (run_two_player), "cpu" (run_vs_cpu) or None       *)
(*   board        the session's (or the caller's) list of 9 cells          *)
(*   current      the mark whose turn it is                                *)
(*   human_piece, cpu_piece   the locals of run_vs_cpu                     *)
(*   winner       the last value of check_winner in the session loop       *)
(*   msg          the last line printed                                    *)
(*   op, before, mark, ret    (harnesses) the function called last, the    *)
(*                board and the mark it was called with, what it returned  *)
(***************************************************************************)
VARIABLES pc, mode, board, current, human_piece, cpu_piece, winner, msg,
          op, before, mark, ret

vars == <<pc, mode, board, current, human_piece, cpu_piece, winner, msg,
          op, before, mark, ret>>

session == <<mode, board, current, human_piece, cpu_piece, winner>>

harness == <<op, before, mark, ret>>

(***************************************************************************)
(* The inputs a prompt can receive, after strip() and lower()/upper().     *)
(***************************************************************************)
QuitWords == {"q", "quit", "salir"}

\* What is typed at "Opcion: ".
MenuInputs == {"1", "2", "x"} \cup QuitWords

\* What is typed at the piece prompt of run_vs_cpu.
PieceInputs == {"X", "O", "", "1"}

\* What is typed at the play-again prompt: only again[0] is read.
AgainInputs == {"s", "si", "n", "no", "", "x"}

\* The numbers typed at human_turn's prompt: 1..9 and one on either side.
TurnNumbers == 0 .. (BOARD_SIZE + 1)

\* again[0], or EMPTY for the empty string.
FirstChar(again) ==
  IF again \in {"s", "si"} THEN "s"
  ELSE IF again \in {"n", "no"} THEN "n"
  ELSE IF again = "" THEN EMPTY ELSE "x"

(***************************************************************************)
(* main: the menu and the play-again prompt.                               *)
(***************************************************************************)
Init ==
  /\ pc = "menu"
  /\ mode = None
  /\ board = new_board
  /\ current = "X"
  /\ human_piece = None
  /\ cpu_piece = None
  /\ winner = None
  /\ msg = "Selecciona modo:"
  /\ op = None
  /\ before = new_board
  /\ mark = "X"
  /\ ret = None

\* Option 1: run_two_player starts with an empty board and X to move.
MenuTwoPlayer ==
  /\ pc = "menu"
  /\ pc' = "turn"
  /\ mode' = "two"
  /\ board' = new_board
  /\ current' = "X"
  /\ winner' = None
  /\ msg' = "2 jugadores"
  /\ UNCHANGED <<human_piece, cpu_piece, harness>>

\* Option 2: run_vs_cpu starts with an empty board and asks for the piece.
MenuVsCpu ==
  /\ pc = "menu"
  /\ pc' = "piece"
  /\ mode' = "cpu"
  /\ board' = new_board
  /\ winner' = None
  /\ msg' = "Jugar contra CPU"
  /\ UNCHANGED <<current, human_piece, cpu_piece, harness>>

MenuQuit ==
  /\ pc = "menu"
  /\ pc' = "exit"
  /\ msg' = "Saliendo."
  /\ UNCHANGED <<session, harness>>

MenuInvalid ==
  /\ pc = "menu"
  /\ msg' = "Opcion invalida."
  /\ UNCHANGED <<pc, session, harness>>

Menu(opt) ==
  IF opt = "1" THEN MenuTwoPlayer
  ELSE IF opt = "2" THEN MenuVsCpu
  ELSE IF opt \in QuitWords THEN MenuQuit
  ELSE MenuInvalid

\* The piece prompt of run_vs_cpu with the human moving first whatever the
\* piece chosen.
ChoosePiece_human_first(choice) ==
  /\ pc = "piece"
  /\ IF choice \in Marks
       THEN /\ human_piece' = choice
            /\ cpu_piece' = Other(choice)
            /\ current' = choice
            /\ pc' = "turn"
            /\ msg' = "Ficha elegida"
            /\ UNCHANGED <<mode, board, winner, harness>>
       ELSE /\ msg' = "Entrada invalida. Escribe X u O."
            /\ UNCHANGED <<pc, session, harness>>

\* The piece prompt of run_vs_cpu; X always moves first.
ChoosePiece(choice) ==
  /\ pc = "piece"
  /\ IF choice \in Marks
       THEN /\ human_piece' = choice
            /\ cpu_piece' = Other(choice)
            /\ current' = "X"
            /\ pc' = "turn"
            /\ msg' = "Ficha elegida"
            /\ UNCHANGED <<mode, board, winner, harness>>
       ELSE /\ msg' = "Entrada invalida. Escribe X u O."
            /\ UNCHANGED <<pc, session, harness>>

\* The play-again prompt: "s" calls main again, "n" returns.
AskAgain(again) ==
  /\ pc = "again"
  /\ IF FirstChar(again) = "s"
       THEN /\ pc' = "menu"
            /\ mode' = None
            /\ board' = new_board
            /\ current' = "X"
            /\ human_piece' = None
            /\ cpu_piece' = None
            /\ winner' = None
            /\ msg' = "Selecciona modo:"
            /\ UNCHANGED harness
       ELSE IF FirstChar(again) = "n"
         THEN /\ pc' = "exit"
              /\ msg' = "Gracias por jugar."
              /\ UNCHANGED <<session, harness>>
         ELSE /\ msg' = "Responde s o n."
              /\ UNCHANGED <<pc, session, harness>>

\* Ctrl-C at any prompt: the handler around main() exits.
Interrupt ==
  /\ pc \in {"menu", "piece", "turn", "again"}
  /\ pc' = "exit"
  /\ msg' = "Interrumpido por el usuario."
  /\ UNCHANGED <<session, harness>>

(***************************************************************************)
(* The session loops run_two_player and run_vs_cpu.                        *)
(***************************************************************************)
\* A human is prompted: always in run_two_player, and in run_vs_cpu when
\* current == human_piece.
HumanToMove ==
  /\ pc = "turn"
  /\ \/ mode = "two"
     \/ mode = "cpu" /\ current = human_piece

\* The piece human_turn is called with.
HumanPiece == IF mode = "two" THEN current ELSE human_piece

\* The end of the loop body without the return: the result is printed and
\* the loop goes on with the other player.
AfterMove_no_return(b, placed) ==
  /\ board' = b
  /\ winner' = check_winner(b)
  /\ pc' = "turn"
  /\ msg' = IF winner' = None THEN placed
            ELSE IF winner' = "D" THEN "Empate." ELSE "Gana"
  /\ current' = Other(current)
  /\ UNCHANGED <<mode, human_piece, cpu_piece, harness>>

\* The end of the loop body with the draw forgotten: only a win of X or O
\* ends the session.
AfterMove_no_draw(b, placed) ==
  /\ board' = b
  /\ winner' = check_winner(b)
  /\ IF winner' \in Marks
       THEN /\ pc' = "again"
            /\ msg' = "Gana"
            /\ UNCHANGED current
       ELSE /\ pc' = "turn"
            /\ msg' = placed
            /\ current' = Other(current)
  /\ UNCHANGED <<mode, human_piece, cpu_piece, harness>>

\* The end of the loop body, after a move left the list as `b`: check_winner,
\* then either the result is printed and the session returns, or the turn
\* passes.
AfterMove(b, placed) ==
  /\ board' = b
  /\ winner' = check_winner(b)
  /\ IF winner' # None
       THEN /\ pc' = "again"
            /\ msg' = IF winner' = "D" THEN "Empate." ELSE "Gana"
            /\ UNCHANGED current
       ELSE /\ pc' = "turn"
            /\ msg' = placed
            /\ current' = Other(current)
  /\ UNCHANGED <<mode, human_piece, cpu_piece, harness>>

\* human_turn, a quit word: sys.exit(0).
HumanQuit ==
  /\ HumanToMove
  /\ pc' = "exit"
  /\ msg' = "Abandonando partida."
  /\ UNCHANGED <<session, harness>>

\* human_turn, an input int() rejects: ValueError, prompt again.
HumanNotANumber ==
  /\ HumanToMove
  /\ msg' = "Entrada invalida."
  /\ UNCHANGED <<pc, session, harness>>

\* human_turn without the test of the cell: an occupied cell is taken too.
HumanNumber_unchecked(n) ==
  /\ HumanToMove
  /\ LET pos == n - 1
     IN  IF pos < 0 \/ pos >= BOARD_SIZE
           THEN /\ msg' = "Numero invalido."
                /\ UNCHANGED <<pc, session, harness>>
           ELSE AfterMove(make_move(board, pos, HumanPiece), "Turno")

\* human_turn returning after the message about an occupied cell: the turn
\* passes with the board as it was.
HumanNumber_turn_passes(n) ==
  /\ HumanToMove
  /\ LET pos == n - 1
     IN  IF pos < 0 \/ pos >= BOARD_SIZE
           THEN /\ msg' = "Numero invalido."
                /\ UNCHANGED <<pc, session, harness>>
           ELSE IF board[pos] # EMPTY
             THEN /\ msg' = "Casilla ocupada."
                  /\ current' = Other(current)
                  /\ UNCHANGED <<pc, mode, board, human_piece, cpu_piece,
                                 winner, harness>>
             ELSE AfterMove(make_move(board, pos, HumanPiece), "Turno")

\* human_turn, a number n: pos = n - 1 is checked for range, then for an
\* empty cell, and only then make_move is called and human_turn returns.
HumanNumber(n) ==
  /\ HumanToMove
  /\ LET pos == n - 1
     IN  IF pos < 0 \/ pos >= BOARD_SIZE
           THEN /\ msg' = "Numero invalido."
                /\ UNCHANGED <<pc, session, harness>>
           ELSE IF board[pos] # EMPTY
             THEN /\ msg' = "Casilla ocupada."
                  /\ UNCHANGED <<pc, session, harness>>
             ELSE AfterMove(make_move(board, pos, HumanPiece), "Turno")

\* The CPU branch of run_vs_cpu: best_move_for_cpu, then make_move.  The
\* RuntimeError of best_move_for_cpu is caught nowhere: the process ends.
CpuTurn ==
  /\ pc = "turn"
  /\ mode = "cpu"
  /\ current # human_piece
  /\ \E r \in {best_move_for_cpu(board, cpu_piece)} :
         IF r.raised
           THEN /\ pc' = "exit"
                /\ msg' = "RuntimeError"
                /\ board' = r.board
                /\ UNCHANGED <<mode, current, human_piece, cpu_piece, winner,
                               harness>>
           ELSE AfterMove(make_move(r.board, r.move, cpu_piece), "CPU coloca")

Next ==
  \/ \E opt \in MenuInputs : Menu(opt)
  \/ \E choice \in PieceInputs : ChoosePiece(choice)
  \/ HumanQuit
  \/ HumanNotANumber
  \/ \E n \in TurnNumbers : HumanNumber(n)
  \/ CpuTurn
  \/ \E again \in AgainInputs : AskAgain(again)
  \/ Interrupt

Spec == Init /\ [][Next]_vars

(***************************************************************************)
(* Inputs of the function-level specifications: every board, reachable in  *)
(* a game or not, with at most MaxEmpty empty cells, and the boards the    *)
(* tests of the design name.                                               *)
(***************************************************************************)
MaxEmpty == 5

AllBoards == [Cells -> Marks \cup {EMPTY}]

Empties(b) == Cardinality({i \in Cells : b[i] = EMPTY})

\* The board whose rows are the 9 entries of `row`.
FromRow(row) == [i \in Cells |-> row[i + 1]]

\* [X,X,_, O,O,_, _,_,_]
BoardWinInOne == FromRow(<<"X", "X", " ", "O", "O", " ", " ", " ", " ">>)

\* [X,O,X, X,O,O, _,_,_]
BoardNearDraw == FromRow(<<"X", "O", "X", "X", "O", "O", " ", " ", " ">>)

InputBoards ==
  {b \in AllBoards : Empties(b) <= MaxEmpty} \cup {new_board, BoardWinInOne}

\* The session variables, unused by the harnesses.
NoSession ==
  /\ mode = None
  /\ human_piece = None
  /\ cpu_piece = None
  /\ msg = ""

(***************************************************************************)
(* SpecFn: one call of one function of the core on an input board.         *)
(***************************************************************************)
InitFn ==
  /\ pc = "call"
  /\ board \in InputBoards
  /\ mark \in Marks
  /\ before = board
  /\ op = None
  /\ ret = None
  /\ current = mark
  /\ winner = None
  /\ NoSession

CallFrame == UNCHANGED <<pc, mode, current, human_piece, cpu_piece, winner, msg,
                         before, mark>>

CallBestMove ==
  /\ pc = "call" /\ op = None
  /\ \E r \in {best_move_for_cpu(board, mark)} :
         /\ board' = r.board
         /\ ret' = [raised |-> r.raised, move |-> r.move]
  /\ op' = "best_move_for_cpu"
  /\ CallFrame

CallMakeMove(idx) ==
  /\ pc = "call" /\ op = None
  /\ board' = make_move(board, idx, mark)
  /\ ret' = idx
  /\ op' = "make_move"
  /\ CallFrame

CallCheckWinner ==
  /\ pc = "call" /\ op = None
  /\ ret' = check_winner(board)
  /\ op' = "check_winner"
  /\ UNCHANGED board
  /\ CallFrame

CallAvailableMoves ==
  /\ pc = "call" /\ op = None
  /\ ret' = available_moves(board)
  /\ op' = "available_moves"
  /\ UNCHANGED board
  /\ CallFrame

\* minimax(board, mark, maximizing): the pair it returns, and the caller's
\* list as the call leaves it.
CallMinimax(maximizing) ==
  /\ pc = "call" /\ op = None
  /\ \E r \in {minimax(board, mark, maximizing)} :
         /\ board' = r.board
         /\ ret' = [score |-> r.score, move |-> r.move, max |-> maximizing]
  /\ op' = "minimax"
  /\ CallFrame

NextFn ==
  \/ CallBestMove
  \/ \E idx \in Cells : CallMakeMove(idx)
  \/ CallCheckWinner
  \/ CallAvailableMoves
  \/ \E maximizing \in BOOLEAN : CallMinimax(maximizing)

SpecFn == InitFn /\ [][NextFn]_vars

(***************************************************************************)
(* SpecSelf: self-play.  From an input board and a mark to move, both      *)
(* sides take the move of best_move_for_cpu until check_winner is not      *)
(* None, as the CPU branch of run_vs_cpu does for one side.                *)
(***************************************************************************)
InitSelf ==
  /\ pc = "self"
  /\ board \in InputBoards
  /\ current \in Marks
  /\ before = board
  /\ mark = current
  /\ op = None
  /\ ret = None
  /\ winner = check_winner(board)
  /\ NoSession

SelfMove ==
  /\ pc = "self"
  /\ winner = None
  /\ \E r \in {best_move_for_cpu(board, current)} :
         /\ ~r.raised
         /\ board' = make_move(r.board, r.move, current)
         /\ ret' = r.move
  /\ winner' = check_winner(board')
  /\ current' = Other(current)
  /\ op' = "self_play"
  /\ UNCHANGED <<pc, mode, human_piece, cpu_piece, msg, before, mark>>

NextSelf == SelfMove

SpecSelf == InitSelf /\ [][NextSelf]_vars

(***************************************************************************)
(* SpecLegal: legal alternating play from the empty board, X first, every  *)
(* empty cell a possible move, stopping at the first outcome that is not   *)
(* None: the boards run_two_player can show.                               *)
(***************************************************************************)
InitLegal ==
  /\ pc = "legal"
  /\ board = new_board
  /\ current = "X"
  /\ before = new_board
  /\ mark = "X"
  /\ op = None
  /\ ret = None
  /\ winner = None
  /\ NoSession

\* The loop going on after a finished game: no return on an outcome.
LegalMove_no_stop(pos) ==
  /\ pc = "legal"
  /\ board[pos] = EMPTY
  /\ board' = make_move(board, pos, current)
  /\ winner' = check_winner(board')
  /\ current' = Other(current)
  /\ UNCHANGED <<pc, mode, human_piece, cpu_piece, msg, harness>>

LegalMove(pos) ==
  /\ pc = "legal"
  /\ winner = None
  /\ board[pos] = EMPTY
  /\ board' = make_move(board, pos, current)
  /\ winner' = check_winner(board')
  /\ current' = Other(current)
  /\ UNCHANGED <<pc, mode, human_piece, cpu_piece, msg, harness>>

NextLegal == \E pos \in Cells : LegalMove(pos)

SpecLegal == InitLegal /\ [][NextLegal]_vars

(***************************************************************************)
(* Properties.                                                             *)
(***************************************************************************)
\* The lowest index of an empty cell of b (b has one).
LowestEmpty(b) ==
  CHOOSE i \in Cells : b[i] = EMPTY /\ \A j \in Cells : j < i => b[j] # EMPTY

\* C1 (Spec): a finished session against the CPU never has the human's piece
\* as its winner: it is a draw or a win of the CPU's piece.
C1_HumanNeverWins ==
  (mode = "cpu" /\ winner # None) =>
    (winner # human_piece /\ winner \in {"D", cpu_piece})

\* A session against the CPU that the CPU won.
C1_Witness ==
  /\ mode = "cpu"
  /\ pc = "again"
  /\ winner = cpu_piece

\* C2 (SpecSelf): self-play from the empty board with X first ends in "D".
C2_SelfPlayDraws ==
  (pc = "self" /\ before = new_board /\ mark = "X" /\ winner # None) =>
    winner = "D"

\* Self-play from the empty board has ended, with a full board.
C2_Witness ==
  /\ pc = "self"
  /\ before = new_board
  /\ mark = "X"
  /\ winner = "D"
  /\ Empties(board) = 0

\* C3 as stated (SpecSelf): from [X,O,X, X,O,O, _,_,_] with O to move, the
\* game played on by best_move_for_cpu ends in a draw and never in a win of X.
C3_NearDrawEndsInDraw ==
  (pc = "self" /\ before = BoardNearDraw /\ mark = "O" /\ winner # None) =>
    (winner = "D" /\ winner # "X")

\* C3 as amended (SpecSelf): from that board with O to move, O's move is
\* index 7, which completes the column 1-4-7: the game ends at once with O
\* the winner, never X and never a draw.
C3_NearDrawOWins ==
  (pc = "self" /\ before = BoardNearDraw /\ mark = "O" /\ op = "self_play") =>
    /\ ret = 7
    /\ board = [before EXCEPT ![7] = "O"]
    /\ winner = "O"

\* O has moved from that board and the game is over.
C3_Witness ==
  /\ pc = "self"
  /\ before = BoardNearDraw
  /\ mark = "O"
  /\ op = "self_play"
  /\ winner = "O"

\* C4 as stated (SpecFn): on a board whose outcome is not None,
\* best_move_for_cpu raises instead of returning a move.
C4_TerminalAlwaysRaises ==
  (op = "best_move_for_cpu" /\ check_winner(before) # None) => ret.raised

\* C4 as amended (SpecFn): on a board whose outcome is not None,
\* best_move_for_cpu raises exactly when the board has no empty cell; on a
\* board with a complete line and an empty cell it returns the lowest empty
\* index.
C4_TerminalRaisesIffFull ==
  (op = "best_move_for_cpu" /\ check_winner(before) # None) =>
    /\ ret.raised <=> Empties(before) = 0
    /\ ~ret.raised => ret.move = LowestEmpty(before)

\* best_move_for_cpu returned a move on a board that is already won.
C4_Witness ==
  /\ op = "best_move_for_cpu"
  /\ check_winner(before) \in Marks
  /\ Empties(before) > 0
  /\ ~ret.raised
  /\ ret.move \in Cells

\* C5 as stated (SpecFn): make_move on an occupied cell leaves the board as
\* it was.
C5_OccupiedLeftUntouched ==
  (op = "make_move" /\ before[ret] # EMPTY) => board = before

\* C5 as amended (SpecFn): make_move on an occupied cell does not fail: it
\* puts the player's mark in that cell, whatever the cell held, and leaves
\* the other 8 cells as they were.
C5_OccupiedOverwritten ==
  (op = "make_move" /\ before[ret] # EMPTY) =>
    /\ board[ret] = mark
    /\ \A i \in Cells \ {ret} : board[i] = before[i]

\* make_move replaced the other player's mark.
C5_Witness ==
  /\ op = "make_move"
  /\ before[ret] = Other(mark)
  /\ board[ret] = mark

(***************************************************************************)
(* The reference search of C6: the loop of minimax with its two breaks     *)
(* removed, every available move tried in ascending order and the best     *)
(* (score, move) kept by the same strict comparison.  Each trial works on  *)
(* its own copy of the board.                                              *)
(***************************************************************************)
RECURSIVE Exhaustive(_, _, _), ExhaustiveLoop(_, _, _, _, _, _, _)
Exhaustive(b, player, maximizing) ==
  LET w == check_winner(b)
  IN  IF w # None
        THEN [score |-> Utility(w), move |-> NoMove]
        ELSE ExhaustiveLoop(b, player, maximizing, available_moves(b), 1,
                            IF maximizing THEN NegInf ELSE PosInf, NoMove)

ExhaustiveLoop(b, player, maximizing, moves, k, best_score, best_move) ==
  IF k > Len(moves)
    THEN [score |-> best_score, move |-> best_move]
    ELSE LET move == moves[k]
             sub  == Exhaustive([b EXCEPT ![move] = player], Other(player),
                                ~maximizing).score
         IN  IF Better(maximizing, sub, best_score)
               THEN ExhaustiveLoop(b, player, maximizing, moves, k + 1,
                                   sub, move)
               ELSE ExhaustiveLoop(b, player, maximizing, moves, k + 1,
                                   best_score, best_move)

\* C6 (SpecLegal): on every board of legal alternating play whose outcome is
\* None, with the mark whose turn it is, minimax returns the same move as
\* the search without the two breaks.
C6_BreaksKeepMove ==
  (pc = "legal" /\ winner = None) =>
    minimax(board, current, current = "X").move
      = Exhaustive(board, current, current = "X").move

\* A board of legal play where the loop of minimax leaves through a break
\* with moves still untried: X to move can force a win, and the move
\* returned is not the last available one.
C6_Witness ==
  /\ pc = "legal"
  /\ winner = None
  /\ current = "X"
  /\ LET r     == minimax(board, "X", TRUE)
         moves == available_moves(board)
     IN  r.score = 1 /\ r.move # moves[Len(moves)]

(***************************************************************************)
(* The game-theoretic value of C7: the outcome under best play of both     *)
(* sides, X preferring the higher and O the lower utility.                 *)
(***************************************************************************)
SetMax(S) == CHOOSE x \in S : \A y \in S : y <= x

SetMin(S) == CHOOSE x \in S : \A y \in S : x <= y

RECURSIVE Value(_, _)
Value(b, player) ==
  LET w == check_winner(b)
  IN  IF w # None
        THEN Utility(w)
        ELSE LET vals == {Value([b EXCEPT ![i] = player], Other(player)) :
                            i \in {j \in Cells : b[j] = EMPTY}}
             IN  IF player = "X" THEN SetMax(vals) ELSE SetMin(vals)

\* The empty cells whose resulting position has the optimal value for
\* player: the maximum for X, the minimum for O.
OptimalCells(b, player) ==
  LET empty == {i \in Cells : b[i] = EMPTY}
      child == [i \in empty |-> Value([b EXCEPT ![i] = player], Other(player))]
      vals  == {child[i] : i \in empty}
      best  == IF player = "X" THEN SetMax(vals) ELSE SetMin(vals)
  IN  {i \in empty : child[i] = best}

\* C7 (SpecFn): on a board whose outcome is None, best_move_for_cpu returns
\* the lowest index among the empty cells with the optimal value for the
\* mark (maximum for X, minimum for O).
C7_LowestOptimalMove ==
  (op = "best_move_for_cpu" /\ check_winner(before) = None) =>
    LET optimal == OptimalCells(before, mark)
    IN  /\ ~ret.raised
        /\ ret.move \in optimal
        /\ \A i \in optimal : ret.move <= i

\* A call where several empty cells tie for the optimal value and some
\* cell below the one returned is empty but worse.
C7_Witness ==
  /\ op = "best_move_for_cpu"
  /\ check_winner(before) = None
  /\ \E i \in Cells : i < ret.move /\ before[i] = EMPTY
  /\ LET optimal == OptimalCells(before, mark)
     IN  Cardinality(optimal) > 1 /\ ret.move = SetMin(optimal)

\* C8 (SpecFn): after best_move_for_cpu returns or raises, the caller's
\* board holds in all 9 cells what it held before the call.
C8_BoardUnchanged ==
  op = "best_move_for_cpu" => board = before

\* A call whose search left its loop through a break: O wins at once at a
\* cell that is not the last empty one.
C8_Witness ==
  /\ op = "best_move_for_cpu"
  /\ board = before
  /\ check_winner(before) = None
  /\ mark = "O"
  /\ ~ret.raised
  /\ check_winner([before EXCEPT ![ret.move] = "O"]) = "O"
  /\ \E i \in Cells : i > ret.move /\ before[i] = EMPTY

\* C9 (SpecFn): on [X,X,_, O,O,_, _,_,_] with X to move, best_move_for_cpu
\* returns index 2.
C9_WinInOne ==
  (op = "best_move_for_cpu" /\ before = BoardWinInOne /\ mark = "X") =>
    (~ret.raised /\ ret.move = 2)

\* The call on that board has returned, and index 2 wins for X.
C9_Witness ==
  /\ op = "best_move_for_cpu"
  /\ before = BoardWinInOne
  /\ mark = "X"
  /\ ret.move = 2
  /\ check_winner(make_move(before, ret.move, "X")) = "X"

\* C10 (SpecFn): on the empty board, best_move_for_cpu for X returns
\* index 0.
C10_EmptyBoardCorner ==
  (op = "best_move_for_cpu" /\ before = new_board /\ mark = "X") =>
    (~ret.raised /\ ret.move = 0)

\* The call on the empty board has returned.
C10_Witness ==
  /\ op = "best_move_for_cpu"
  /\ before = new_board
  /\ mark = "X"
  /\ ret.move = 0
  /\ board = new_board

(***************************************************************************)
(* Properties of the sessions.                                             *)
(***************************************************************************)
\* The cells in which two boards differ.
Changed(b, c) == {i \in Cells : b[i] # c[i]}

\* C11 (Spec): in a session, a step that changes the board (a move of a
\* human or of the CPU) changes exactly one cell, and that cell was empty;
\* every other step leaves the board alone, so a cell that holds X or O
\* keeps it until the session is over and main starts again.
C11_OneEmptyCellPerMove ==
  [][(pc \in {"turn", "again"} /\ pc' # "menu") =>
       /\ \A i \in Cells : board[i] # EMPTY => board'[i] = board[i]
       /\ Cardinality(Changed(board, board')) <= 1
       /\ \A i \in Changed(board, board') :
            board[i] = EMPTY /\ board'[i] \in Marks]_vars

\* A session against the CPU after one move of each side.
C11_Witness ==
  /\ mode = "cpu"
  /\ pc = "turn"
  /\ Empties(board) = BOARD_SIZE - 2
  /\ \E i, j \in Cells : board[i] = "X" /\ board[j] = "O"

\* The marks that hold a complete win line of b.
LineMarks(b) ==
  {b[WIN_LINES[k][1]] : k \in {j \in DOMAIN WIN_LINES : Complete(b, WIN_LINES[j])}}

\* WIN_LINES scanned with line k first, the other lines in their order.
LineFirst(k) ==
  <<WIN_LINES[k]>> \o SubSeq(WIN_LINES, 1, k - 1)
                   \o SubSeq(WIN_LINES, k + 1, Len(WIN_LINES))

\* WIN_LINES scanned from its last line to its first.
LinesReversed ==
  [k \in DOMAIN WIN_LINES |-> WIN_LINES[Len(WIN_LINES) + 1 - k]]

\* C12 (SpecLegal): on every board of legal alternating play that stops at
\* the first outcome, X and O do not both hold a complete line, and the scan
\* of check_winner gives the same value whichever line is scanned first.
C12_ScanOrderIrrelevant ==
  pc = "legal" =>
    /\ ~({"X", "O"} \subseteq LineMarks(board))
    /\ \A k \in DOMAIN WIN_LINES :
         ScanLines(board, LineFirst(k)) = ScanLines(board, WIN_LINES)
    /\ ScanLines(board, LinesReversed) = ScanLines(board, WIN_LINES)
    /\ winner = check_winner(board)

\* The last move completed two lines at once: different scan orders meet
\* different complete lines first.
C12_Witness ==
  /\ pc = "legal"
  /\ winner = "X"
  /\ Cardinality({j \in DOMAIN WIN_LINES : Complete(board, WIN_LINES[j])}) = 2

(***************************************************************************)
(* The lines of the 3x3 grid, from its geometry: rows, columns, diagonals. *)
(***************************************************************************)
GridLines ==
  {{3 * r, 3 * r + 1, 3 * r + 2} : r \in 0 .. 2}
    \cup {{c, c + 3, c + 6} : c \in 0 .. 2}
    \cup {{0, 4, 8}, {2, 4, 6}}

\* Mark m fills a line of the grid on b.
HoldsLine(b, m) == \E l \in GridLines : \A i \in l : b[i] = m

NoLine(b) == \A m \in Marks : ~HoldsLine(b, m)

\* C13 (SpecFn): check_winner returns "D" exactly when no line of the grid
\* holds three equal marks and no cell is empty, None exactly when no line
\* does and some cell is empty, and otherwise a mark that holds a line; a
\* full board with a line is that mark's win, not a draw.
C13_OutcomeExact ==
  op = "check_winner" =>
    /\ ret = "D" <=> (NoLine(before) /\ Empties(before) = 0)
    /\ ret = None <=> (NoLine(before) /\ Empties(before) > 0)
    /\ ~NoLine(before) => (ret \in Marks /\ HoldsLine(before, ret))
    /\ board = before

\* check_winner was called on a full board with a complete line.
C13_Witness ==
  /\ op = "check_winner"
  /\ Empties(before) = 0
  /\ ret \in Marks
  /\ HoldsLine(before, ret)

\* C14 (SpecFn): available_moves returns the indices of the empty cells and
\* no others, each once and in ascending order, so its length plus the
\* number of occupied cells is 9, and it is empty on a full board.
C14_AvailableExact ==
  op = "available_moves" =>
    /\ {ret[k] : k \in DOMAIN ret} = {i \in Cells : before[i] = EMPTY}
    /\ \A j, k \in DOMAIN ret : j < k => ret[j] < ret[k]
    /\ Len(ret) + Cardinality({i \in Cells : before[i] # EMPTY}) = BOARD_SIZE
    /\ Empties(before) = 0 => ret = << >>
    /\ board = before

\* available_moves was called on a board whose first cell is occupied and
\* that has several empty cells.
C14_Witness ==
  /\ op = "available_moves"
  /\ before[0] # EMPTY
  /\ Len(ret) > 2
  /\ ret[1] > 0

\* C15 (Spec): in both session loops the outcome is evaluated after every
\* move and the loop ends at the first outcome that is not None: a step that
\* changes the board starts at the top of the loop from a board whose
\* outcome is None and that has an empty cell, the loop is re-entered only
\* with such a board, a session returns only with an outcome, and the
\* RuntimeError of best_move_for_cpu never occurs.
C15_LoopEndsAtFirstOutcome ==
  [][/\ (Changed(board, board') # {} /\ pc' # "menu") =>
          (pc = "turn" /\ check_winner(board) = None /\ Empties(board) > 0)
     /\ pc' = "turn" =>
          (check_winner(board') = None /\ Empties(board') > 0 /\ winner' = None)
     /\ pc' = "again" =>
          (winner' # None /\ winner' = check_winner(board'))
     /\ msg' # "RuntimeError"]_vars

\* The CPU is called with a single empty cell left, on a board whose
\* outcome is None.
C15_Witness ==
  /\ mode = "cpu"
  /\ pc = "turn"
  /\ current = cpu_piece
  /\ Empties(board) = 1
  /\ check_winner(board) = None

\* A board with no complete line and at least one empty cell.
InProgress(b) == NoLine(b) /\ Empties(b) > 0

\* C16 (SpecFn): on every board with no complete line and an empty cell, for
\* either mark and either role, minimax returns a move that is the index of
\* an empty cell of that board, and it returns no move exactly on the boards
\* whose outcome is not None; on such a board best_move_for_cpu does not
\* raise and returns the move of minimax, so the fallback to the lowest
\* empty index is not taken.
C16_MinimaxAlwaysMoves ==
  /\ op = "minimax" =>
       /\ InProgress(before) =>
            (ret.move \in Cells /\ before[ret.move] = EMPTY)
       /\ ret.move = NoMove <=> ~InProgress(before)
       /\ ret.move = NoMove <=> check_winner(before) # None
  /\ (op = "best_move_for_cpu" /\ InProgress(before)) =>
       /\ ~ret.raised
       /\ ret.move \in Cells /\ before[ret.move] = EMPTY
       /\ minimax(before, mark, mark = "X").move = ret.move

\* minimax is called as the maximizer on a board where every move loses:
\* the score it returns is that of a loss, and it still returns a move.
C16_Witness ==
  /\ op = "minimax"
  /\ InProgress(before)
  /\ ret.max
  /\ ret.score = -1
  /\ ret.move \in Cells

\* The input n of human_turn is out of range or names an occupied cell.
Rejected(b, n) == (n - 1) \notin Cells \/ b[n - 1] # EMPTY

\* C17 (Spec): a number typed at human_turn that is out of 1..9 or names an
\* occupied cell is rejected with a message: the board, the player to move
\* and the position in the loop are unchanged, so the same player is
\* prompted again; and while a human is prompted the board changes only by
\* that player's mark entering the empty cell the input names.
C17_InvalidInputRejected ==
  [][/\ \A n \in TurnNumbers :
          (HumanNumber(n) /\ Rejected(board, n)) =>
             /\ UNCHANGED <<pc, session>>
             /\ msg' \in {"Numero invalido.", "Casilla ocupada."}
             /\ HumanToMove'
             /\ HumanPiece' = HumanPiece
     /\ msg' \in {"Numero invalido.", "Casilla ocupada.", "Entrada invalida."} =>
          UNCHANGED <<pc, session>>
     /\ (HumanToMove /\ board' # board) =>
          \E n \in TurnNumbers :
             /\ ~Rejected(board, n)
             /\ board' = [board EXCEPT ![n - 1] = HumanPiece]]_vars

\* An occupied cell was named in a session against the CPU, and the human
\* is at the prompt again.
C17_Witness ==
  /\ mode = "cpu"
  /\ msg = "Casilla ocupada."
  /\ HumanToMove
  /\ Empties(board) < BOARD_SIZE - 1

(***************************************************************************)
(* SpecLive: the sessions of Spec with progress.  The process is never     *)
(* suspended, so the CPU branch runs when it is the CPU's turn; and a      *)
(* human at the prompt of human_turn eventually types the number of an     *)
(* empty cell.  Nothing is assumed about the menu, the piece prompt and    *)
(* the play-again prompt.                                                  *)
(***************************************************************************)
\* human_turn returns: the number typed names an empty cell.
ValidHumanMove ==
  \E n \in TurnNumbers : ~Rejected(board, n) /\ HumanNumber(n)

\* It is the CPU's turn in run_vs_cpu.
CpuToMove == pc = "turn" /\ mode = "cpu" /\ current # human_piece

\* The CPU branch and the end of the loop body have run, whichever cell
\* best_move_for_cpu chose: the steps of CpuTurn, described by what they
\* print and assign, so that the progress condition does not depend on the
\* search.  C18 checks that these are the steps of CpuTurn.
CpuBranchDone ==
  /\ CpuToMove
  /\ msg' \in {"CPU coloca", "Gana", "Empate.", "RuntimeError"}
  /\ pc' \in {"turn", "again", "exit"}
  /\ \/ \E i \in Cells : board' = [board EXCEPT ![i] = cpu_piece]
     \/ board' = board
  /\ current' \in Marks
  /\ winner' \in Marks \cup {"D", None}
  /\ UNCHANGED <<mode, human_piece, cpu_piece, harness>>

SpecLive == Spec /\ WF_vars(CpuBranchDone) /\ WF_vars(ValidHumanMove)

\* The process has left the session loop: the session returned to main with
\* an outcome, or the process ended at a quit word or at Ctrl-C.
SessionOver ==
  \/ pc = "again" /\ winner # None /\ winner = check_winner(board)
  \/ pc = "exit" /\ msg \in {"Abandonando partida.",
                            "Interrumpido por el usuario."}

\* C18 (SpecLive): every session ends.  At the top of the loop the board has
\* an empty cell, each move applied in a session fills one more cell of the
\* 9, so a session applies at most 9 moves; and when every prompt of
\* human_turn is eventually answered with the number of an empty cell, a
\* session that is in its loop eventually leaves it, returning with an
\* outcome that is not None unless the player quits or interrupts.  The
\* progress assumed of the CPU is that of the steps of CpuTurn.
C18_SessionTerminates ==
  /\ [](pc = "turn" => (Empties(board) > 0 /\ check_winner(board) = None))
  /\ [][(pc = "turn" /\ pc' \in {"turn", "again"} /\ board' # board) =>
           Empties(board') = Empties(board) - 1]_vars
  /\ [][CpuBranchDone <=> CpuTurn]_vars
  /\ (pc = "turn") ~> SessionOver

\* A session returned after 9 applied moves.
C18_Witness ==
  /\ pc = "again"
  /\ Empties(board) = 0
  /\ winner = "D"
  /\ msg = "Empate."

\* The number of cells of b that hold the mark m.
Count(b, m) == Cardinality({i \in Cells : b[i] = m})

\* C19 (Spec): X moves first and the turns alternate.  In every state the
\* board holds as many X as O, or one more X; at the top of a session loop
\* it is X's turn exactly when the counts are equal and O's turn exactly
\* when X has one more.  A move of a session places the mark of the player
\* whose turn it is, and in run_vs_cpu the CPU's steps place cpu_piece and
\* the human's steps place human_piece, the two pieces being different.
C19_TurnsAlternate ==
  /\ [](/\ Count(board, "X") - Count(board, "O") \in {0, 1}
        /\ pc = "turn" =>
             /\ current \in Marks
             /\ current = "X" <=> Count(board, "X") = Count(board, "O")
             /\ current = "O" <=> Count(board, "X") = Count(board, "O") + 1
             /\ mode = "cpu" => {human_piece, cpu_piece} = Marks)
  /\ [][(pc = "turn" /\ board' # board) =>
          /\ \E i \in Cells : board' = [board EXCEPT ![i] = current]
          /\ (mode = "cpu" /\ CpuToMove) =>
                \E i \in Cells : board' = [board EXCEPT ![i] = cpu_piece]
          /\ (mode = "cpu" /\ HumanToMove) =>
                \E i \in Cells : board' = [board EXCEPT ![i] = human_piece]]_vars

\* The human chose O: the CPU moved first with X, the human answered with O
\* and it is the CPU's turn again.
C19_Witness ==
  /\ mode = "cpu"
  /\ human_piece = "O"
  /\ CpuToMove
  /\ Count(board, "X") = 1
  /\ Count(board, "O") = 1

====
